---- MODULE Spec2Model ----
(***************************************************************************)
(* Authors service and Books service over one shared relational database.  *)
(* The state is the three tables (authors, books, book_authors), the       *)
(* CreateBook requests in flight, and MaxSlots client connections, each    *)
(* carrying at most one Authors-service request and the Books-service      *)
(* PUT /books/{id}/authors handler that serves it (or that a client        *)
(* called directly).  Every database statement group that the code commits *)
(* together and every HTTP round trip is one step; requests interleave     *)
(* between steps.  A commit is atomic (the storage engine's guarantee).    *)
(* Rows carry their id only: name, bio, title, description decide nothing. *)
(***************************************************************************)
EXTENDS Integers, Sequences, FiniteSets, TLC

MaxAuthors == 2
MaxBooks == 1
MaxLen == 2
MaxSlots == 2
MaxConcLen == 1
MaxQueryBooks == 3

AuthorIds == 1..MaxAuthors
BookIds == 1..MaxBooks
\* The ids a client may name: those the tables can hold, and for books one more,
\* which no row ever has.
AuthorArgs == AuthorIds
BookArgs == 1..(MaxBooks + 1)
Slots == 1..MaxSlots
Net == {"ok", "down"}

VARIABLES authors, books, book_authors, creq, areq, breq

vars == <<authors, books, book_authors, creq, areq, breq>>
db == <<authors, books, book_authors>>

\* ------------------------------------------------------------------ helpers

Range(s) == {s[j] : j \in 1..Len(s)}

SeqsUpTo(S, n) == UNION {[1..m -> S] : m \in 0..n}

\* The orders in which the store may return the rows of a set (no ORDER BY).
Orderings(S) == {f \in [1..Cardinality(S) -> S] : \A x, y \in 1..Cardinality(S) : f[x] = f[y] => x = y}

\* Book.authors: the authors joined to a book through book_authors.
AuthorsOf(tbl, b) == {p[2] : p \in {q \in tbl : q[1] = b}}

\* Serial primary keys: rows are never deleted, so the next id is the count + 1.
NextAuthorId == Cardinality(authors) + 1
NextBookId == Cardinality(books) + 1

\* ------------------------------------------------------------- scheduling

Idle(s) == areq[s].kind = "none" /\ breq[s].pc = "idle"

\* A connection whose request has its answer, which the client reads at once.
Finished(s) ==
    \/ areq[s].kind = "none" /\ breq[s].pc = "done"
    \/ areq[s].pc = "done" /\ breq[s].pc \in {"idle", "done"}

\* Answers are delivered before anything else happens: an answered request
\* takes no further step, so delaying its delivery changes no table.
NoAnswerPending ==
    /\ \A s \in Slots : ~Finished(s)
    /\ \A b \in BookIds : creq[b].pc # "done"

\* Connections are taken in order: the lowest idle one serves the next request.
Free(s) == Idle(s) /\ \A t \in Slots : t < s => ~Idle(t)

\* ------------------------------------------------------------ authors table

\* GET /authors/{id}: the status the Authors service answers with.
read_author(author_id) == IF author_id \in authors THEN 200 ELSE 404

\* _assert_author_exists: 0 when the author exists, else the status raised.
assert_author_exists(author_id, net) ==
    IF net = "down" THEN 503
    ELSE IF read_author(author_id) = 200 THEN 0
    ELSE IF read_author(author_id) = 404 THEN 404
    ELSE 502

\* POST /authors/: insert one row with the next serial id.
create_author ==
    /\ Cardinality(authors) < MaxAuthors
    /\ authors' = authors \cup {NextAuthorId}
    /\ UNCHANGED <<books, book_authors, creq, areq, breq>>

\* ------------------------------------------------------------- POST /books/

NoCreate == [pc |-> "none", author_ids |-> <<>>, k |-> 0, status |-> 0, attached |-> {}]

\* A create that goes on to its authors without having committed the book row.
create_book_insert_norow(ids) ==
    /\ Cardinality(books) < MaxBooks
    /\ books' = books
    /\ creq' = [creq EXCEPT ![NextBookId] =
                  [pc |-> IF ids = <<>> THEN "done" ELSE "validate",
                   author_ids |-> ids, k |-> 1,
                   status |-> IF ids = <<>> THEN 200 ELSE 0,
                   attached |-> {}]]
    /\ UNCHANGED <<authors, book_authors, areq, breq>>

\* Lines 153-161: the book row is inserted and committed, then author_ids is read.
create_book_insert(ids) ==
    /\ Cardinality(books) < MaxBooks
    /\ books' = books \cup {NextBookId}
    /\ creq' = [creq EXCEPT ![NextBookId] =
                  [pc |-> IF ids = <<>> THEN "done" ELSE "validate",
                   author_ids |-> ids, k |-> 1,
                   status |-> IF ids = <<>> THEN 200 ELSE 0,
                   attached |-> {}]]
    /\ UNCHANGED <<authors, book_authors, areq, breq>>

\* A validation loop that attaches and commits each author as it is validated.
create_book_validate_eager(b, net) ==
    /\ creq[b].pc = "validate"
    /\ LET aid == creq[b].author_ids[creq[b].k]
           st == assert_author_exists(aid, net)
       IN /\ creq' = [creq EXCEPT ![b] =
                     IF st # 0 THEN [@ EXCEPT !.pc = "done", !.status = st]
                     ELSE IF @.k = Len(@.author_ids)
                          THEN [@ EXCEPT !.pc = "attach", !.attached = @ \cup {aid}]
                     ELSE [@ EXCEPT !.k = @ + 1, !.attached = @ \cup {aid}]]
          /\ book_authors' = IF st # 0 THEN book_authors ELSE book_authors \cup {<<b, aid>>}
    /\ UNCHANGED <<authors, books, areq, breq>>

\* Lines 162-163: one _assert_author_exists call of the validation loop.
create_book_validate(b, net) ==
    /\ creq[b].pc = "validate"
    /\ LET st == assert_author_exists(creq[b].author_ids[creq[b].k], net)
       IN creq' = [creq EXCEPT ![b] =
                     IF st # 0 THEN [@ EXCEPT !.pc = "done", !.status = st]
                     ELSE IF @.k = Len(@.author_ids) THEN [@ EXCEPT !.pc = "attach"]
                     ELSE [@ EXCEPT !.k = @ + 1]]
    /\ UNCHANGED <<authors, books, book_authors, areq, breq>>

\* Lines 165-172: every author row is selected and appended, then one commit.
\* A missing row raises 404 before the commit, so nothing is attached.
create_book_attach(b) ==
    /\ creq[b].pc = "attach"
    /\ LET ids == Range(creq[b].author_ids)
       IN IF ids \subseteq authors
          THEN /\ book_authors' = book_authors \cup {<<b, a>> : a \in ids}
               /\ creq' = [creq EXCEPT ![b] = [@ EXCEPT !.pc = "done", !.status = 200, !.attached = ids]]
          ELSE /\ book_authors' = book_authors
               /\ creq' = [creq EXCEPT ![b] = [@ EXCEPT !.pc = "done", !.status = 404]]
    /\ UNCHANGED <<authors, books, areq, breq>>

\* The client has the answer of its POST /books/.
create_book_return(b) ==
    /\ creq[b].pc = "done"
    /\ creq' = [creq EXCEPT ![b] = NoCreate]
    /\ UNCHANGED <<authors, books, book_authors, areq, breq>>

\* ------------------------------------------- GET /books/{book_id}/authors

\* A JSON object for an author row, as AuthorForBook serialises it.
AuthorJson(a) == [type |-> "object", id |-> a]

\* get_book_authors: 404 for an unknown book, else the book's authors as a
\* JSON list in one of the orders the store may return them.
get_book_authors(book_id) ==
    IF book_id \notin books
    THEN {[status |-> 404, json |-> [type |-> "object", items |-> <<>>]]}
    ELSE {[status |-> 200,
           json |-> [type |-> "list", items |-> [j \in 1..Len(ord) |-> AuthorJson(ord[j])]]] :
            ord \in Orderings(AuthorsOf(book_authors, book_id))}

\* ------------------------------------------- PUT /books/{book_id}/authors

NoPut == [pc |-> "idle", book_id |-> 0, author_ids |-> <<>>, k |-> 0, status |-> 0,
          body |-> [detail |-> "none"], old |-> {}]

Detail(d) == [detail |-> d]

\* Lines 188-197: the book lookup, then the payload is read.
set_book_authors_begin(book_id, ids) ==
    IF book_id \notin books
    THEN [NoPut EXCEPT !.pc = "done", !.book_id = book_id, !.author_ids = ids,
                       !.status = 404, !.body = Detail("Book not found")]
    ELSE [NoPut EXCEPT !.pc = IF ids = <<>> THEN "commit" ELSE "validate",
                       !.book_id = book_id, !.author_ids = ids, !.k = 1]

\* A validation loop that runs after the book's rows were deleted: the
\* replace clears first and validates afterwards.
set_book_authors_validate_clear(s, net) ==
    /\ breq[s].pc = "validate"
    /\ LET st == assert_author_exists(breq[s].author_ids[breq[s].k], net)
       IN breq' = [breq EXCEPT ![s] =
                     IF st # 0
                     THEN [@ EXCEPT !.pc = "done", !.status = st,
                                    !.body = Detail(IF st = 404 THEN "Author not found"
                                                    ELSE "Authors service unavailable")]
                     ELSE IF @.k = Len(@.author_ids) THEN [@ EXCEPT !.pc = "commit"]
                     ELSE [@ EXCEPT !.k = @ + 1]]
    /\ book_authors' = {p \in book_authors : p[1] # breq[s].book_id}
    /\ UNCHANGED <<authors, books, creq, areq>>

\* Lines 200-201: one _assert_author_exists call of the validation loop.
set_book_authors_validate(s, net) ==
    /\ breq[s].pc = "validate"
    /\ LET st == assert_author_exists(breq[s].author_ids[breq[s].k], net)
       IN breq' = [breq EXCEPT ![s] =
                     IF st # 0
                     THEN [@ EXCEPT !.pc = "done", !.status = st,
                                    !.body = Detail(IF st = 404 THEN "Author not found"
                                                    ELSE "Authors service unavailable")]
                     ELSE IF @.k = Len(@.author_ids) THEN [@ EXCEPT !.pc = "commit"]
                     ELSE [@ EXCEPT !.k = @ + 1]]
    /\ UNCHANGED <<authors, books, book_authors, creq, areq>>

\* Line 208: the ids of the payload that have no row, in payload order.
Missing(ids, found) == SelectSeq(ids, LAMBDA aid : aid \notin found)

\* A replace that writes only when the book has no author yet (first write wins).
KeepFirstRows(tbl, book_id, rows) ==
    IF \E p \in tbl : p[1] = book_id THEN tbl
    ELSE tbl \cup {<<book_id, a>> : a \in rows}

\* A replace that keeps the rows the book already has.
MergeRows(tbl, book_id, rows) == tbl \cup {<<book_id, a>> : a \in rows}

\* Lines 213-214: book.authors = authors; commit.  The book's rows become
\* exactly the fetched rows; other books' rows are untouched.
ReplaceRows(tbl, book_id, rows) ==
    {p \in tbl : p[1] # book_id} \cup {<<book_id, a>> : a \in rows}

\* A commit that inserts the rows without deleting the old ones first, so a
\* row that is already there violates the primary key and the request fails.
set_book_authors_commit_insert(s) ==
    /\ breq[s].pc = "commit"
    /\ LET h == breq[s]
           found == {a \in authors : a \in Range(h.author_ids)}
       IN IF found \cap AuthorsOf(book_authors, h.book_id) # {}
          THEN /\ book_authors' = book_authors
               /\ breq' = [breq EXCEPT ![s] =
                     [@ EXCEPT !.pc = "done", !.status = 500, !.body = Detail("Internal Server Error")]]
          ELSE /\ book_authors' = ReplaceRows(book_authors, h.book_id, found)
               /\ \E ord \in Orderings(AuthorsOf(book_authors', h.book_id)) :
                     breq' = [breq EXCEPT ![s] =
                       [@ EXCEPT !.pc = "done", !.status = 200,
                                 !.old = AuthorsOf(book_authors, h.book_id),
                                 !.body = [book_id |-> h.book_id, author_ids |-> ord]]]
    /\ UNCHANGED <<authors, books, creq, areq>>

\* Lines 204-216: fetch the rows, check for missing ones, replace, commit, answer.
set_book_authors_commit(s) ==
    /\ breq[s].pc = "commit"
    /\ LET h == breq[s]
           found == {a \in authors : a \in Range(h.author_ids)}
           missing == Missing(h.author_ids, found)
       IN IF missing # <<>>
          THEN /\ book_authors' = book_authors
               /\ breq' = [breq EXCEPT ![s] =
                     [@ EXCEPT !.pc = "done", !.status = 404,
                               !.body = [detail |-> "Authors not found in DB", missing |-> missing]]]
          ELSE /\ book_authors' = ReplaceRows(book_authors, h.book_id, found)
               /\ \E ord \in Orderings(AuthorsOf(book_authors', h.book_id)) :
                     breq' = [breq EXCEPT ![s] =
                       [@ EXCEPT !.pc = "done", !.status = 200,
                                 !.old = AuthorsOf(book_authors, h.book_id),
                                 !.body = [book_id |-> h.book_id, author_ids |-> ord]]]
    /\ UNCHANGED <<authors, books, creq, areq>>

\* --------------------------------------------- GET /books/by-author/{id}

\* SetToSortedSeq: the ids of a set in ascending order (ORDER BY Book.id).
RECURSIVE Ascending(_)
Ascending(S) ==
    IF S = {} THEN <<>>
    ELSE LET m == CHOOSE x \in S : \A y \in S : x <= y
         IN <<m>> \o Ascending(S \ {m})

\* get_books_by_author: the join query; never an error.
get_books_by_author(author_id) ==
    [author_id |-> author_id,
     books |-> Ascending({p[1] : p \in {q \in book_authors : q[2] = author_id /\ q[1] \in books}})]

\* ------------------------------------------------- Authors service requests

NoReq == [kind |-> "none", pc |-> "none", author_id |-> 0, book_ids |-> <<>>, i |-> 0,
          raw |-> "none", current_authors |-> <<>>, current_ids |-> <<>>, updated |-> <<>>,
          status |-> 0, body |-> [detail |-> "none"], calls |-> <<>>]

Fail(r, st, d) == [r EXCEPT !.pc = "done", !.status = st, !.body = Detail(d)]

\* GET /authors/: all rows, in the store's order.
list_authors(s) ==
    /\ Free(s)
    /\ \E ord \in Orderings(authors) :
         areq' = [areq EXCEPT ![s] =
            [NoReq EXCEPT !.kind = "list_authors", !.pc = "done", !.status = 200,
                          !.body = [rows |-> ord]]]
    /\ UNCHANGED <<authors, books, book_authors, creq, breq>>

\* GET /authors/{author_id}, called by a client.
get_author(s, author_id) ==
    /\ Free(s)
    /\ areq' = [areq EXCEPT ![s] =
          IF read_author(author_id) = 404
          THEN Fail([NoReq EXCEPT !.kind = "read_author", !.author_id = author_id], 404, "Author not found")
          ELSE [NoReq EXCEPT !.kind = "read_author", !.author_id = author_id, !.pc = "done",
                             !.status = 200, !.body = [id |-> author_id]]]
    /\ UNCHANGED <<authors, books, book_authors, creq, breq>>

\* GET /authors/{author_id}/books, lines 253-255: the local lookup.
read_author_books(s, author_id) ==
    /\ Free(s)
    /\ areq' = [areq EXCEPT ![s] =
          IF author_id \notin authors
          THEN Fail([NoReq EXCEPT !.kind = "read_author_books", !.author_id = author_id], 404, "Author not found")
          ELSE [NoReq EXCEPT !.kind = "read_author_books", !.author_id = author_id, !.pc = "fetch"]]
    /\ UNCHANGED <<authors, books, book_authors, creq, breq>>

\* _fetch_books_by_author: the call to the Books service, returned verbatim.
fetch_books_by_author(s, net) ==
    /\ areq[s].kind = "read_author_books" /\ areq[s].pc = "fetch"
    /\ LET r == [areq[s] EXCEPT !.calls = Append(@, <<"GET_BY_AUTHOR", areq[s].author_id>>)]
       IN areq' = [areq EXCEPT ![s] =
            IF net = "down" THEN Fail(r, 503, "Books service unavailable")
            ELSE [r EXCEPT !.pc = "done", !.status = 200,
                           !.body = get_books_by_author(r.author_id)]]
    /\ UNCHANGED <<authors, books, book_authors, creq, breq>>

\* ------------------------------------------- PUT /authors/{author_id}/books

\* Line 199: the ids of the elements that are objects carrying an id.
RECURSIVE CurrentIds(_)
CurrentIds(current_authors) ==
    IF current_authors = <<>> THEN <<>>
    ELSE LET a == Head(current_authors)
         IN (IF a.type = "object" /\ "id" \in DOMAIN a THEN <<a.id>> ELSE <<>>)
            \o CurrentIds(Tail(current_authors))

\* A merge that sends author_id alone.
MergeAuthorOnly(current_ids, author_id) == <<author_id>>

\* A merge that appends author_id without looking for it.
MergeAuthorAlways(current_ids, author_id) == Append(current_ids, author_id)

\* A merge that takes author_id out when it is there and appends it when it
\* is not.
MergeAuthorToggle(current_ids, author_id) ==
    IF author_id \in Range(current_ids)
    THEN SelectSeq(current_ids, LAMBDA x : x # author_id)
    ELSE Append(current_ids, author_id)

\* Lines 200-201: append author_id when it is absent.
MergeAuthor(current_ids, author_id) ==
    IF author_id \in Range(current_ids) THEN current_ids ELSE Append(current_ids, author_id)

\* A begin without the empty-list return: it goes on to the loop.
set_author_books_begin_loop(s, author_id, book_ids) ==
    /\ Free(s)
    /\ areq' = [areq EXCEPT ![s] =
          LET r == [NoReq EXCEPT !.kind = "assign", !.author_id = author_id, !.book_ids = book_ids]
          IN IF author_id \notin authors THEN Fail(r, 404, "Author not found")
             ELSE [r EXCEPT !.pc = "get", !.i = 1]]
    /\ UNCHANGED <<authors, books, book_authors, creq, breq>>

\* A begin without the local author lookup.
set_author_books_begin_nolookup(s, author_id, book_ids) ==
    /\ Free(s)
    /\ areq' = [areq EXCEPT ![s] =
          LET r == [NoReq EXCEPT !.kind = "assign", !.author_id = author_id, !.book_ids = book_ids]
          IN IF book_ids = <<>>
             THEN [r EXCEPT !.pc = "done", !.status = 200,
                            !.body = [author_id |-> author_id, updated_books |-> <<>>,
                                      message |-> "No book_ids provided"]]
             ELSE [r EXCEPT !.pc = "get", !.i = 1]]
    /\ UNCHANGED <<authors, books, book_authors, creq, breq>>

\* Lines 163-174: the local author lookup and the empty-list return.
set_author_books_begin(s, author_id, book_ids) ==
    /\ Free(s)
    /\ areq' = [areq EXCEPT ![s] =
          LET r == [NoReq EXCEPT !.kind = "assign", !.author_id = author_id, !.book_ids = book_ids]
          IN IF author_id \notin authors THEN Fail(r, 404, "Author not found")
             ELSE IF book_ids = <<>>
             THEN [r EXCEPT !.pc = "done", !.status = 200,
                            !.body = [author_id |-> author_id, updated_books |-> <<>>,
                                      message |-> "No book_ids provided"]]
             ELSE [r EXCEPT !.pc = "get", !.i = 1]]
    /\ UNCHANGED <<authors, books, book_authors, creq, breq>>

\* A read that skips a book it cannot read and goes on with the next one.
set_author_books_get_skip(s, net) ==
    /\ areq[s].kind = "assign" /\ areq[s].pc = "get"
    /\ LET r == [areq[s] EXCEPT !.calls = Append(@, <<"GET", areq[s].book_ids[areq[s].i]>>)]
           book_id == r.book_ids[r.i]
           skip == IF r.i < Len(r.book_ids) THEN [r EXCEPT !.i = @ + 1]
                   ELSE Fail(r, 503, "Books service unavailable")
       IN IF net = "down"
          THEN areq' = [areq EXCEPT ![s] = skip]
          ELSE \E resp \in get_book_authors(book_id) :
                 areq' = [areq EXCEPT ![s] =
                   IF resp.status # 200 THEN skip
                   ELSE [r EXCEPT !.pc = "put",
                                  !.current_authors = resp.json.items,
                                  !.current_ids = MergeAuthor(CurrentIds(resp.json.items), r.author_id)]]
    /\ UNCHANGED <<authors, books, book_authors, creq, breq>>

\* Lines 179-201: what the request does with the response to its read.  An
\* error status is passed on; a body that is not JSON makes json.loads raise
\* inside the try block, which the handler of Exception turns into 503; a
\* JSON value that is not a list is 502; a list is filtered and merged.
read_current_authors(r, resp) ==
    IF resp.status # 200 THEN Fail(r, resp.status, "Books service error reading authors")
    ELSE IF resp.json.type = "invalid"
    THEN Fail([r EXCEPT !.raw = "invalid"], 503, "Books service unavailable")
    ELSE IF resp.json.type # "list"
    THEN Fail([r EXCEPT !.raw = resp.json.type], 502, "Unexpected response from books_service")
    ELSE [r EXCEPT !.pc = "put",
                   !.raw = "list",
                   !.current_authors = resp.json.items,
                   !.current_ids = MergeAuthor(CurrentIds(resp.json.items), r.author_id)]

\* Lines 177-201: read the book's current authors from the Books service and merge.
set_author_books_get(s, net) ==
    /\ areq[s].kind = "assign" /\ areq[s].pc = "get"
    /\ LET r == [areq[s] EXCEPT !.calls = Append(@, <<"GET", areq[s].book_ids[areq[s].i]>>)]
           book_id == r.book_ids[r.i]
       IN IF net = "down"
          THEN areq' = [areq EXCEPT ![s] = Fail(r, 503, "Books service unavailable")]
          ELSE \E resp \in get_book_authors(book_id) :
                 areq' = [areq EXCEPT ![s] = read_current_authors(r, resp)]
    /\ UNCHANGED <<authors, books, book_authors, creq, breq>>

\* What a peer at BOOKS_SERVICE_URL may answer to the read with status 200:
\* a body that is not JSON, a JSON object, or a JSON list whose elements are
\* author records, objects without an id, or strings.
PeerElements == {AuthorJson(a) : a \in AuthorIds} \cup {[type |-> "object"], [type |-> "string"]}
PeerAnswers ==
    {[status |-> 200, json |-> [type |-> t, items |-> <<>>]] : t \in {"invalid", "object"}}
    \cup {[status |-> 200, json |-> [type |-> "list", items |-> q]] : q \in SeqsUpTo(PeerElements, MaxLen)}

\* Lines 177-201 against such a peer: the read is answered by any of these.
set_author_books_get_peer(s, resp) ==
    /\ areq[s].kind = "assign" /\ areq[s].pc = "get"
    /\ LET r == [areq[s] EXCEPT !.calls = Append(@, <<"GET", areq[s].book_ids[areq[s].i]>>)]
       IN areq' = [areq EXCEPT ![s] = read_current_authors(r, resp)]
    /\ UNCHANGED <<authors, books, book_authors, creq, breq>>

\* A write that inserts the author's row into book_authors itself instead of
\* calling the Books service.
set_author_books_put_direct(s, net) ==
    /\ areq[s].kind = "assign" /\ areq[s].pc = "put"
    /\ LET r == areq[s]
       IN /\ book_authors' = book_authors \cup {<<r.book_ids[r.i], r.author_id>>}
          /\ areq' = [areq EXCEPT ![s] =
                IF r.i < Len(r.book_ids) THEN [r EXCEPT !.pc = "get", !.i = @ + 1]
                ELSE [r EXCEPT !.pc = "done", !.status = 200,
                               !.body = [author_id |-> r.author_id, book_ids |-> r.book_ids,
                                         updated_books |-> r.updated]]]
    /\ UNCHANGED <<authors, books, creq, breq>>

\* Lines 204-215: send the PUT; the Books service handler starts on delivery.
set_author_books_put(s, net) ==
    /\ areq[s].kind = "assign" /\ areq[s].pc = "put"
    /\ LET r == [areq[s] EXCEPT !.calls = Append(@, <<"PUT", areq[s].book_ids[areq[s].i]>>)]
       IN IF net = "down"
          THEN /\ areq' = [areq EXCEPT ![s] = Fail(r, 503, "Books service unavailable")]
               /\ breq' = breq
          ELSE /\ areq' = [areq EXCEPT ![s] = [r EXCEPT !.pc = "wait"]]
               /\ breq' = [breq EXCEPT ![s] = set_book_authors_begin(r.book_ids[r.i], r.current_ids)]
    /\ UNCHANGED <<authors, books, book_authors, creq>>

\* Lines 222-223: urlopen times out while the Books service is still working;
\* the request fails and the handler goes on without it.
set_author_books_timeout(s) ==
    /\ areq[s].kind = "assign" /\ areq[s].pc = "wait"
    /\ breq[s].pc # "done"
    /\ areq' = [areq EXCEPT ![s] = Fail(@, 503, "Books service unavailable")]
    /\ UNCHANGED <<authors, books, book_authors, creq, breq>>

\* Lines 215-225: the PUT's answer: collect it and go on, or fail with its status.
set_author_books_answer(s) ==
    /\ areq[s].kind = "assign" /\ areq[s].pc = "wait"
    /\ breq[s].pc = "done"
    /\ areq' = [areq EXCEPT ![s] =
          IF breq[s].status # 200 THEN Fail(@, breq[s].status, "Books service error updating book")
          ELSE LET r == [@ EXCEPT !.updated = Append(@, breq[s].body)]
               IN IF r.i < Len(r.book_ids) THEN [r EXCEPT !.pc = "get", !.i = @ + 1]
                  ELSE [r EXCEPT !.pc = "done", !.status = 200,
                                 !.body = [author_id |-> r.author_id, book_ids |-> r.book_ids,
                                           updated_books |-> r.updated]]]
    /\ breq' = [breq EXCEPT ![s] = NoPut]
    /\ UNCHANGED <<authors, books, book_authors, creq>>

\* ------------------------------------------------------------- the clients

\* A client calls PUT /books/{book_id}/authors directly.
set_book_authors(s, book_id, ids) ==
    /\ Free(s)
    /\ breq' = [breq EXCEPT ![s] = set_book_authors_begin(book_id, ids)]
    /\ UNCHANGED <<authors, books, book_authors, creq, areq>>

\* A request that answers NotFound for an author that has no row.
books_by_author_checked(s, author_id) ==
    /\ Free(s)
    /\ areq' = [areq EXCEPT ![s] =
          LET r == [NoReq EXCEPT !.kind = "books_by_author", !.author_id = author_id]
          IN IF author_id \notin authors THEN Fail(r, 404, "Author not found")
             ELSE [r EXCEPT !.pc = "done", !.status = 200, !.body = get_books_by_author(author_id)]]
    /\ UNCHANGED <<authors, books, book_authors, creq, breq>>

\* A client calls GET /books/by-author/{author_id} directly: the handler is
\* the one query, and it has no error path.
books_by_author(s, author_id) ==
    /\ Free(s)
    /\ areq' = [areq EXCEPT ![s] =
          [NoReq EXCEPT !.kind = "books_by_author", !.author_id = author_id, !.pc = "done",
                        !.status = 200, !.body = get_books_by_author(author_id)]]
    /\ UNCHANGED <<authors, books, book_authors, creq, breq>>

\* The client has its answer; the connection serves the next request.
Close(s) ==
    /\ Finished(s)
    /\ areq' = [areq EXCEPT ![s] = NoReq]
    /\ breq' = [breq EXCEPT ![s] = NoPut]
    /\ UNCHANGED <<authors, books, book_authors, creq>>

\* --------------------------------------------------------- specification

Init ==
    /\ authors = {}
    /\ books = {}
    /\ book_authors = {}
    /\ creq = [b \in BookIds |-> NoCreate]
    /\ areq = [s \in Slots |-> NoReq]
    /\ breq = [s \in Slots |-> NoPut]

\* One client connection: requests arrive one after the other, while
\* POST /authors/ and POST /books/ requests run beside them.
Serial == {s \in Slots : \A t \in Slots : s <= t}

Next ==
    \/ NoAnswerPending /\ create_author
    \/ NoAnswerPending /\ \E ids \in SeqsUpTo(AuthorArgs, MaxLen) : create_book_insert(ids)
    \/ NoAnswerPending /\ \E b \in BookIds, net \in Net : create_book_validate(b, net)
    \/ NoAnswerPending /\ \E b \in BookIds : create_book_attach(b)
    \/ \E b \in BookIds : create_book_return(b)
    \/ NoAnswerPending /\ \E s \in Serial : list_authors(s)
    \/ NoAnswerPending /\ \E s \in Serial, a \in AuthorArgs : get_author(s, a)
    \/ NoAnswerPending /\ \E s \in Serial, a \in AuthorArgs : read_author_books(s, a)
    \/ NoAnswerPending /\ \E s \in Serial, net \in Net : fetch_books_by_author(s, net)
    \/ NoAnswerPending /\ \E s \in Serial, a \in AuthorArgs, bs \in SeqsUpTo(BookArgs, MaxLen) :
            set_author_books_begin(s, a, bs)
    \/ NoAnswerPending /\ \E s \in Serial, net \in Net : set_author_books_get(s, net)
    \/ NoAnswerPending /\ \E s \in Serial, net \in Net : set_author_books_put(s, net)
    \/ NoAnswerPending /\ \E s \in Serial : set_author_books_timeout(s)
    \/ NoAnswerPending /\ \E s \in Serial : set_author_books_answer(s)
    \/ NoAnswerPending /\ \E s \in Serial, b \in BookArgs, ids \in SeqsUpTo(AuthorArgs, MaxLen) :
            set_book_authors(s, b, ids)
    \/ NoAnswerPending /\ \E s \in Serial, net \in Net : set_book_authors_validate(s, net)
    \/ NoAnswerPending /\ \E s \in Serial : set_book_authors_commit(s)
    \/ \E s \in Serial : Close(s)

Spec == Init /\ [][Next]_vars

\* MaxSlots client connections whose relationship-mutating requests interleave
\* step by step, with lists of at most MaxConcLen ids.
NextConcurrent ==
    \/ NoAnswerPending /\ create_author
    \/ NoAnswerPending /\ \E ids \in SeqsUpTo(AuthorArgs, MaxConcLen) : create_book_insert(ids)
    \/ NoAnswerPending /\ \E b \in BookIds, net \in Net : create_book_validate(b, net)
    \/ NoAnswerPending /\ \E b \in BookIds : create_book_attach(b)
    \/ \E b \in BookIds : create_book_return(b)
    \/ NoAnswerPending /\ \E s \in Slots, a \in AuthorArgs, bs \in SeqsUpTo(BookArgs, MaxConcLen) :
            set_author_books_begin(s, a, bs)
    \/ NoAnswerPending /\ \E s \in Slots, net \in Net : set_author_books_get(s, net)
    \/ NoAnswerPending /\ \E s \in Slots, net \in Net : set_author_books_put(s, net)
    \/ NoAnswerPending /\ \E s \in Slots : set_author_books_timeout(s)
    \/ NoAnswerPending /\ \E s \in Slots : set_author_books_answer(s)
    \/ NoAnswerPending /\ \E s \in Slots, b \in BookArgs, ids \in SeqsUpTo(AuthorArgs, MaxConcLen) :
            set_book_authors(s, b, ids)
    \/ NoAnswerPending /\ \E s \in Slots, net \in Net : set_book_authors_validate(s, net)
    \/ NoAnswerPending /\ \E s \in Slots : set_book_authors_commit(s)
    \/ \E s \in Slots : Close(s)

SpecConcurrent == Init /\ [][NextConcurrent]_vars

\* A database the requests above can have produced, and one client that
\* calls PUT /books/{book_id}/authors and, once it has the answer, calls it
\* again with the same arguments on its next connection; nothing else runs.
InitTwice ==
    /\ \E na \in 0..MaxAuthors, nb \in 0..MaxBooks :
          /\ authors = 1..na
          /\ books = 1..nb
          /\ book_authors \in SUBSET ((1..nb) \X (1..na))
    /\ creq = [b \in BookIds |-> NoCreate]
    /\ areq = [s \in Slots |-> NoReq]
    /\ breq = [s \in Slots |-> NoPut]

NextTwice ==
    \/ \E s \in Serial, b \in BookArgs, ids \in SeqsUpTo(AuthorArgs, MaxLen) :
          (\A t \in Slots : Idle(t)) /\ set_book_authors(s, b, ids)
    \/ \E s \in Slots, net \in Net : set_book_authors_validate(s, net)
    \/ \E s \in Slots : set_book_authors_commit(s)
    \/ \E s \in Serial, t \in Slots :
          t = s + 1 /\ breq[s].pc = "done" /\ set_book_authors(t, breq[s].book_id, breq[s].author_ids)

SpecTwice == InitTwice /\ [][NextTwice]_vars

\* A database as above and one client that calls PUT /authors/{id}/books
\* while the reads of the Authors service are answered by a peer that may
\* send any of PeerAnswers; the writes go to the Books service.
NextPeer ==
    \/ NoAnswerPending /\ \E s \in Serial, a \in AuthorArgs, bs \in SeqsUpTo(BookArgs, MaxLen) :
            set_author_books_begin(s, a, bs)
    \/ NoAnswerPending /\ \E s \in Serial, resp \in PeerAnswers : set_author_books_get_peer(s, resp)
    \/ NoAnswerPending /\ \E s \in Serial, net \in Net : set_author_books_put(s, net)
    \/ NoAnswerPending /\ \E s \in Serial : set_author_books_answer(s)
    \/ NoAnswerPending /\ \E s \in Serial, net \in Net : set_book_authors_validate(s, net)
    \/ NoAnswerPending /\ \E s \in Serial : set_book_authors_commit(s)
    \/ \E s \in Serial : Close(s)

SpecPeer == InitTwice /\ [][NextPeer]_vars

\* A database as above and one client that calls PUT /authors/{id}/books
\* and, once it has the answer, calls it again with the same arguments on its
\* next connection; nothing else runs.
NextAssignTwice ==
    \/ \E s \in Serial, a \in AuthorArgs, bs \in SeqsUpTo(BookArgs, MaxLen) :
          (\A t \in Slots : Idle(t)) /\ set_author_books_begin(s, a, bs)
    \/ \E s \in Serial, t \in Slots :
          /\ t = s + 1 /\ areq[s].pc = "done" /\ breq[s].pc \in {"idle", "done"}
          /\ set_author_books_begin(t, areq[s].author_id, areq[s].book_ids)
    \/ \E s \in Slots, net \in Net : set_author_books_get(s, net)
    \/ \E s \in Slots, net \in Net : set_author_books_put(s, net)
    \/ \E s \in Slots : set_author_books_timeout(s)
    \/ \E s \in Slots : set_author_books_answer(s)
    \/ \E s \in Slots, net \in Net : set_book_authors_validate(s, net)
    \/ \E s \in Slots : set_book_authors_commit(s)

SpecAssignTwice == InitTwice /\ [][NextAssignTwice]_vars

\* A database with up to MaxQueryBooks books, and one client that calls
\* GET /books/by-author/{author_id} with an id that has a row or has none.
QueryBookIds == 1..MaxQueryBooks
QueryArgs == 1..(MaxAuthors + 1)

InitQuery ==
    /\ \E na \in 0..MaxAuthors, nb \in 0..MaxQueryBooks :
          /\ authors = 1..na
          /\ books = 1..nb
          /\ book_authors \in SUBSET ((1..nb) \X (1..na))
    /\ creq = [b \in BookIds |-> NoCreate]
    /\ areq = [s \in Slots |-> NoReq]
    /\ breq = [s \in Slots |-> NoPut]

NextQuery ==
    \/ \E s \in Serial, a \in QueryArgs : books_by_author(s, a)
    \/ \E s \in Serial : Close(s)

SpecQuery == InitQuery /\ [][NextQuery]_vars

\* ------------------------------------------------------------------ claims

\* The ids of a list of author records, in the list's order.
IdsOf(L) == [j \in 1..Len(L) |-> L[j].id]

Last(q) == q[Len(q)]

\* The step in which the PUT handler of connection s commits its replace.
Commits(s) == breq[s].pc = "commit" /\ breq'[s].pc = "done" /\ breq'[s].status = 200

\* C1 (state part): in AssignBooksToAuthor(A, book_ids), the list sent to the
\* replace endpoint is the list L read from the Book Store with A appended at
\* the end when A is not in L, and L itself when A is in L; and the answer
\* collected for a book carries the author set set(L) \cup {A}.
C1_Sent ==
    \A s \in Slots :
        LET r == areq[s]
            L == IdsOf(r.current_authors)
        IN r.kind = "assign" /\ r.current_ids # <<>> =>
             /\ r.current_ids = (IF \E j \in 1..Len(L) : L[j] = r.author_id THEN L ELSE L \o <<r.author_id>>)
             /\ (r.pc = "done" /\ r.status = 200 =>
                   /\ Len(r.updated) = Len(r.book_ids)
                   /\ Last(r.updated).book_id = Last(r.book_ids)
                   /\ Range(Last(r.updated).author_ids) = Range(L) \cup {r.author_id})

\* C1 (step part): the replace write of AssignBooksToAuthor leaves the book's
\* author set equal to set(L) \cup {A}.
C1_Written ==
    \A s \in Slots :
        areq[s].kind = "assign" /\ areq[s].pc = "wait" /\ Commits(s) =>
            AuthorsOf(book_authors', breq[s].book_id) =
                Range(IdsOf(areq[s].current_authors)) \cup {areq[s].author_id}

\* C1: AssignBooksToAuthor sends L with A appended when absent (L unchanged
\* when present, never reordered or deduplicated), and after the write the
\* book's author set is set(L) \cup {A}.
C1_AssignMerges == []C1_Sent /\ [][C1_Written]_vars

\* C1 witness: an assign has succeeded on a book whose list read held one
\* other author, and the book now has both.
C1_Witness ==
    \E s \in Slots :
        /\ areq[s].kind = "assign" /\ areq[s].pc = "done" /\ areq[s].status = 200
        /\ Len(areq[s].current_authors) = 1
        /\ areq[s].author_id \notin Range(IdsOf(areq[s].current_authors))
        /\ Len(areq[s].current_ids) = 2
        /\ Cardinality(AuthorsOf(book_authors, Last(areq[s].book_ids))) = 2

\* C2 (state part): the answer of a successful ReplaceBookAuthors(B, ids)
\* names B and exactly the set of ids given, each once.
C2_Answer ==
    \A s \in Slots :
        breq[s].pc = "done" /\ breq[s].status = 200 =>
            /\ breq[s].body.book_id = breq[s].book_id
            /\ Range(breq[s].body.author_ids) = Range(breq[s].author_ids)
            /\ Len(breq[s].body.author_ids) = Cardinality(Range(breq[s].author_ids))
            /\ Range(breq[s].author_ids) \subseteq authors
            /\ breq[s].book_id \in books

\* C2 (step part): the commit leaves B's author set equal to exactly the ids
\* given, whatever it was, and leaves every other book's rows alone.
C2_Overwrites ==
    \A s \in Slots :
        Commits(s) =>
            /\ AuthorsOf(book_authors', breq[s].book_id) = Range(breq[s].author_ids)
            /\ \A b \in BookIds : b # breq[s].book_id =>
                    AuthorsOf(book_authors', b) = AuthorsOf(book_authors, b)

\* C2: a successful ReplaceBookAuthors(B, ids) leaves B's author set equal to
\* exactly set(ids), removing every prior author not in ids, and answers with
\* that same set.
C2_ReplaceOverwrites == []C2_Answer /\ [][C2_Overwrites]_vars

\* C2 witness: a client's replace succeeded and removed a prior author.
C2_Witness ==
    \E s \in Slots :
        /\ areq[s].kind = "none"
        /\ breq[s].pc = "done" /\ breq[s].status = 200
        /\ breq[s].old \ Range(breq[s].author_ids) # {}
        /\ AuthorsOf(book_authors, breq[s].book_id) = Range(breq[s].author_ids)

\* The step in which the PUT that AssignBooksToAuthor on connection s is
\* waiting for commits its replace.
AssignWrites(s) == areq[s].kind = "assign" /\ areq[s].pc = "wait" /\ Commits(s)

C3_KeepsAll ==
    \A s \in Slots :
        AssignWrites(s) =>
            AuthorsOf(book_authors, breq[s].book_id) \subseteq AuthorsOf(book_authors', breq[s].book_id)

\* C3 as stated: in every interleaving, every author attached to B before
\* this call's replace write to B is still attached to B after it.
C3_PreservesAll == [][C3_KeepsAll]_vars

C3_KeepsRead ==
    \A s \in Slots :
        AssignWrites(s) =>
            Range(IdsOf(areq[s].current_authors)) \cup {areq[s].author_id}
                \subseteq AuthorsOf(book_authors', breq[s].book_id)

\* C3 amended: in every interleaving, every author that was attached to B
\* when this call read B's authors is attached to B right after this call's
\* replace write to B (together with A).
C3_PreservesRead == [][C3_KeepsRead]_vars

\* C3 witness: the replace write of an assign has committed on a book whose
\* authors changed between the assign's read and its write, and an author
\* attached at the write is gone.
C3_Witness ==
    \E s \in Slots :
        /\ areq[s].kind = "assign" /\ areq[s].pc = "wait"
        /\ breq[s].pc = "done" /\ breq[s].status = 200
        /\ breq[s].old # Range(IdsOf(areq[s].current_authors))
        /\ breq[s].old \ Range(breq[s].author_ids) # {}

C4_Step ==
    /\ \A s \in Slots :
          /\ Commits(s) => AuthorsOf(book_authors', breq[s].book_id) = Range(breq[s].author_ids)
          /\ breq[s].pc = "commit" /\ breq'[s] # breq[s] => Commits(s)
          /\ areq[s].pc = "wait" /\ breq[s].pc = "done" /\ breq[s].status = 200 /\ areq'[s] # areq[s]
                => areq'[s].status \in {0, 200} /\ Last(areq'[s].updated) = breq[s].body
    /\ \A b \in BookIds :
          AuthorsOf(book_authors', b) # AuthorsOf(book_authors, b) =>
              \/ \E s \in Slots : Commits(s) /\ breq[s].book_id = b
              \/ creq[b].pc = "attach" /\ creq'[b].pc = "done"

\* C4: last write wins.  Every replace on B that reaches its commit, whatever
\* was committed on B since it started, sets B's author set to the ids it
\* was given and reports success (to the client, and to the assign that sent
\* it); no other step of a ReplaceBookAuthors or AssignBooksToAuthor request
\* changes B's author set (the one other writer is B's own CreateBook).  So B
\* holds what the most recently committed replace wrote.
C4_LastWriteWins == [][C4_Step]_vars

\* C4 witness: two replaces with different ids race on one book; one has
\* committed and the other is about to commit over it.
C4_Witness ==
    \E s, t \in Slots :
        /\ s # t
        /\ breq[s].pc = "done" /\ breq[s].status = 200
        /\ breq[t].pc = "commit" /\ breq[t].book_id = breq[s].book_id
        /\ Range(breq[t].author_ids) # Range(breq[s].author_ids)
        /\ areq[s].kind = "assign" /\ areq[t].kind = "none"

\* C5 as stated: a CreateBook that ends with 404 for an unknown author has
\* persisted no book row.
C5_FailedCreateLeavesNoBook ==
    \A b \in BookIds : creq[b].pc = "done" /\ creq[b].status = 404 => b \notin books

\* C6 (state part): the calls an AssignBooksToAuthor request has issued are
\* GET b1, PUT b1, GET b2, PUT b2, ... in input order, one read and one
\* replace per book; a request that failed while processing b_k has issued no
\* call for a later book and no PUT after a failed GET, holds the answers of
\* b_1 .. b_(k-1), and those books still hold the merged sets written.
C6_Calls ==
    \A s \in Slots :
        LET r == areq[s]
            n == Len(r.calls)
        IN r.kind = "assign" =>
             /\ \A j \in 1..n :
                   r.calls[j] = <<IF j % 2 = 1 THEN "GET" ELSE "PUT", r.book_ids[(j + 1) \div 2]>>
             /\ n <= 2 * Len(r.book_ids)
             /\ Len(r.updated) <= n \div 2
             /\ (r.pc = "done" /\ r.status # 200 /\ n > 0 =>
                   /\ r.i = (n + 1) \div 2
                   /\ Len(r.updated) = r.i - 1
                   /\ \A j \in 1..Len(r.updated) :
                         /\ r.updated[j].book_id = r.book_ids[j]
                         /\ r.author_id \in Range(r.updated[j].author_ids)
                         /\ Range(r.updated[j].author_ids) \subseteq AuthorsOf(book_authors, r.book_ids[j]))

\* C6 (step part): the step in which the request fails changes no table (no
\* rollback), and a request that has ended takes no further step (no retry).
C6_Step ==
    \A s \in Slots :
        /\ areq[s].kind = "assign" /\ areq[s].pc = "done" => areq'[s] \in {areq[s], NoReq}
        /\ areq[s].kind = "assign" /\ areq[s].pc # "done" /\ areq'[s].pc = "done" /\ areq'[s].status # 200
              => db' = db
        /\ areq[s].kind = "assign" /\ areq'[s].kind = "assign"
              => Len(areq'[s].calls) <= Len(areq[s].calls) + 1

\* C6: AssignBooksToAuthor processes the books in input order, one read then
\* one replace each, fails at once at the first failing peer call, rolls
\* nothing back and issues no further call.
C6_EarlyAbort == []C6_Calls /\ [][C6_Step]_vars

\* C6 witness: an assign of two books failed on the second after the first
\* was written; the first book still has the author.
C6_Witness ==
    \E s \in Slots :
        /\ areq[s].kind = "assign" /\ areq[s].pc = "done" /\ areq[s].status # 200
        /\ Len(areq[s].book_ids) = 2 /\ areq[s].i = 2
        /\ Len(areq[s].updated) = 1
        /\ <<areq[s].book_ids[1], areq[s].author_id>> \in book_authors

\* C8 (state part): AssignBooksToAuthor(A, []) for an existing author has
\* ended with the "No book_ids provided" result and has issued no call.
C8_Answer ==
    \A s \in Slots :
        areq[s].kind = "assign" /\ areq[s].book_ids = <<>> /\ areq[s].author_id \in authors =>
            /\ areq[s].pc = "done" /\ areq[s].status = 200
            /\ areq[s].body = [author_id |-> areq[s].author_id, updated_books |-> <<>>,
                                message |-> "No book_ids provided"]
            /\ areq[s].calls = <<>>
            /\ breq[s] = NoPut

\* C8 (step part): the request changes no table and starts no PUT handler.
C8_Step ==
    \A s \in Slots :
        areq[s].kind = "none" /\ areq'[s].kind = "assign" /\ areq'[s].book_ids = <<>> =>
            db' = db /\ breq' = breq

\* C8: AssignBooksToAuthor(A, []) for an existing A calls nobody, changes no
\* book's author set and returns {author_id, updated_books: [], message}.
C8_EmptyAssign == []C8_Answer /\ [][C8_Step]_vars

\* C8 witness: the empty assign has been answered while a book has authors.
C8_Witness ==
    \E s \in Slots :
        /\ areq[s].kind = "assign" /\ areq[s].book_ids = <<>> /\ areq[s].status = 200
        /\ book_authors # {}

\* C9 (state part): the rows a CreateBook call has attached are all of its
\* author_ids when it succeeded, and none before that or when it failed.
C9_Attached ==
    \A b \in BookIds :
        LET c == creq[b]
        IN c.pc # "none" =>
             /\ c.attached \in {{}, Range(c.author_ids)}
             /\ (c.pc = "done" /\ c.status = 200 => c.attached = Range(c.author_ids))
             /\ (c.pc # "done" \/ c.status # 200 => c.attached = {})
             /\ b \in books

\* C9 (step part): only the attach step of CreateBook writes rows, and it
\* writes one row per author_id or none.
C9_Step ==
    \A b \in BookIds :
        /\ creq'[b] # creq[b] /\ creq[b].pc # "attach" => book_authors' = book_authors
        /\ creq'[b] # creq[b] /\ creq[b].pc = "attach" =>
              \/ creq'[b].status = 200
                    /\ book_authors' = book_authors \cup {<<b, a>> : a \in Range(creq[b].author_ids)}
              \/ creq'[b].status # 200 /\ book_authors' = book_authors

\* C9: CreateBook attaches authors all-or-nothing: the rows are committed
\* only after every id passed validation; a strict non-empty subset of
\* author_ids is never committed.
C9_AllOrNothing == []C9_Attached /\ [][C9_Step]_vars

\* C9 witness: a CreateBook whose first author passed validation failed on
\* the second, and the book has no author.
C9_Witness ==
    \E b \in BookIds :
        /\ creq[b].pc = "done" /\ creq[b].status = 404 /\ creq[b].k = 2
        /\ creq[b].author_ids[1] \in authors
        /\ AuthorsOf(book_authors, b) = {}

C10_Step ==
    /\ book_authors' # book_authors =>
          \/ \E s \in Slots : Commits(s)
          \/ \E b \in BookIds : creq[b].pc = "attach" /\ creq'[b].pc = "done" /\ creq'[b].status = 200
    /\ \A s \in Slots : areq'[s] # areq[s] => book_authors' = book_authors

\* C10: the Book Store is the sole writer of book_authors: no step of an
\* Author Store request changes the table; every change is the commit of a
\* Book Store ReplaceBookAuthors handler or the attach of a CreateBook.
C10_SoleWriter == [][C10_Step]_vars

\* C10 witness: the PUT sent by an assign has committed the author's row,
\* and the assign has not yet read the answer.
C10_Witness ==
    \E s \in Slots :
        /\ areq[s].kind = "assign" /\ areq[s].pc = "wait"
        /\ breq[s].pc = "done" /\ breq[s].status = 200
        /\ <<breq[s].book_id, areq[s].author_id>> \in book_authors
        /\ areq[s].author_id \notin breq[s].old

\* C7 (state part): the second of two identical ReplaceBookAuthors calls
\* ends as the first did: the same status unless the Authors service could
\* not be reached in one of them, the same book and author set in the
\* answer, the same error otherwise.
C7_SameAnswer ==
    \A s \in Serial, t \in Slots :
        t = s + 1 /\ breq[t].pc = "done" =>
            /\ breq[s].status # 503 /\ breq[t].status # 503 => breq[t].status = breq[s].status
            /\ breq[s].status = 200 /\ breq[t].status = 200 =>
                  /\ breq[t].body.book_id = breq[s].body.book_id
                  /\ Range(breq[t].body.author_ids) = Range(breq[s].body.author_ids)
                  /\ Len(breq[t].body.author_ids) = Len(breq[s].body.author_ids)
            /\ breq[s].status = breq[t].status /\ breq[s].status # 200 => breq[t].body = breq[s].body

\* C7 (step part): no step of the second call changes a table, the first
\* call having run to its end (a first call cut short by an unreachable
\* Authors service did not run).
C7_Step ==
    \A s \in Serial, t \in Slots :
        t = s + 1 /\ breq[s].status # 503 /\ breq'[t] # breq[t] => db' = db

\* C7: ReplaceBookAuthors is idempotent: with nothing in between, a second
\* call with the same arguments leaves authors, books and book_authors as the
\* first call left them and returns the same result.
C7_Idempotent == []C7_SameAnswer /\ [][C7_Step]_vars

\* C7 witness: both calls succeeded with two ids; the first changed the
\* book's author set, the second found it as the first left it.
C7_Witness ==
    \E s \in Serial, t \in Slots :
        /\ t = s + 1
        /\ breq[s].pc = "done" /\ breq[s].status = 200
        /\ breq[t].pc = "done" /\ breq[t].status = 200
        /\ Cardinality(Range(breq[s].author_ids)) = 2
        /\ breq[s].old # Range(breq[s].author_ids)
        /\ breq[t].old = Range(breq[t].author_ids)

\* C11: ListBooksByAuthor(a) never fails with NotFound: for every author id,
\* with a row or without, it answers 200 with {author_id: a, books}, where
\* books is exactly the books joined to a in book_authors, each once, in
\* ascending book id order; the list is empty when a has no books or no row.
C11_ListBooksByAuthor ==
    \A s \in Slots :
        LET r == areq[s]
            joined == {b \in books : r.author_id \in AuthorsOf(book_authors, b)}
        IN r.kind = "books_by_author" =>
             /\ r.pc = "done" /\ r.status = 200
             /\ r.body.author_id = r.author_id
             /\ Range(r.body.books) = joined
             /\ Len(r.body.books) = Cardinality(joined)
             /\ \A i, j \in 1..Len(r.body.books) : i < j => r.body.books[i] < r.body.books[j]
             /\ (r.author_id \notin authors \/ joined = {} => r.body.books = <<>>)

\* C11 witness: the query for an id without a row was answered with the
\* empty list while other authors have books.
C11_Witness ==
    \E s \in Slots :
        /\ areq[s].kind = "books_by_author" /\ areq[s].pc = "done"
        /\ areq[s].author_id \notin authors
        /\ areq[s].body.books = <<>>
        /\ Cardinality({p[1] : p \in book_authors}) >= 2

\* The Authors-service requests that name an author id.
ByAuthorId == {"read_author", "read_author_books", "assign"}

\* C12 (state part): GetAuthor, ListBooksForAuthor and AssignBooksToAuthor
\* for an id without a row in authors have ended with 404 "Author not
\* found", have issued no call to the Books service and have started no PUT
\* handler there.
C12_Answer ==
    \A s \in Slots :
        areq[s].kind \in ByAuthorId /\ areq[s].author_id \notin authors =>
            /\ areq[s].pc = "done" /\ areq[s].status = 404
            /\ areq[s].body = Detail("Author not found")
            /\ areq[s].calls = <<>>
            /\ breq[s] = NoPut

\* C12 (step part): the request changes no table when it arrives, whatever
\* book_ids it carries, and once answered it takes no further step.
C12_Step ==
    \A s \in Slots :
        /\ areq[s].kind = "none" /\ areq'[s].kind \in ByAuthorId /\ areq'[s].author_id \notin authors
              => db' = db /\ breq' = breq
        /\ areq[s].kind \in ByAuthorId /\ areq[s].author_id \notin authors
              => areq'[s] \in {areq[s], NoReq} /\ breq'[s] = NoPut

\* C12: GetAuthor(id), ListBooksForAuthor(id) and AssignBooksToAuthor(id,
\* book_ids) with an id that is not in the authors table fail with 404
\* "Author not found" before any call to the Book Store and without changing
\* any book's author set, whatever book_ids contains.
C12_UnknownAuthor == []C12_Answer /\ [][C12_Step]_vars

\* C12 witness: an assign for an id without a row, naming a book that exists
\* and has an author, was answered 404 with no call made.
C12_Witness ==
    \E s \in Slots :
        /\ areq[s].kind = "assign" /\ areq[s].pc = "done" /\ areq[s].status = 404
        /\ areq[s].author_id \notin authors
        /\ areq[s].book_ids # <<>> /\ areq[s].book_ids[1] \in books
        /\ AuthorsOf(book_authors, areq[s].book_ids[1]) # {}
        /\ areq[s].calls = <<>>

\* C13 (state part): a ReplaceBookAuthors(B, ids) that failed ended with
\* 404 "Book not found" before any validation, or with 404 at an id, or with
\* 503, after the ids before it were found in input order.
C13_Failed ==
    \A s \in Slots :
        LET h == breq[s]
        IN h.pc = "done" /\ h.status # 200 =>
             \/ /\ h.status = 404 /\ h.body = Detail("Book not found")
                /\ h.book_id \notin books /\ h.k = 0
             \/ /\ h.status = 404 /\ h.body = Detail("Author not found")
                /\ h.book_id \in books /\ h.k \in 1..Len(h.author_ids)
                /\ \A j \in 1..(h.k - 1) : h.author_ids[j] \in authors
             \/ /\ h.status = 503 /\ h.body = Detail("Authors service unavailable")
                /\ h.book_id \in books /\ h.k \in 1..Len(h.author_ids)
                /\ \A j \in 1..(h.k - 1) : h.author_ids[j] \in authors

\* C13 (step part): the call for an unknown B fails on arrival and the call
\* for a known B does not; a validation step passes an id that has a row and
\* fails with 404 at an id that has none, unless the Authors service cannot
\* be reached (503); every step of the handler other than its successful
\* commit leaves the three tables as they are, and a handler that has
\* answered takes no further step.
C13_Step ==
    \A s \in Slots :
        LET h == breq[s]
            g == breq'[s]
        IN /\ h.pc = "idle" /\ g.pc # "idle" =>
                 /\ db' = db
                 /\ g.book_id \notin books <=> g.pc = "done"
           /\ h.pc = "validate" /\ g # h =>
                 /\ db' = db
                 /\ \/ g.status = 0 /\ h.author_ids[h.k] \in authors
                    \/ g.status = 404 /\ g.pc = "done" /\ g.k = h.k /\ h.author_ids[h.k] \notin authors
                    \/ g.status = 503 /\ g.pc = "done" /\ g.k = h.k
           /\ h.pc = "commit" /\ g # h /\ g.status # 200 => db' = db
           /\ h.pc = "done" => g \in {h, NoPut}

\* C13: ReplaceBookAuthors(B, ids) fails without changing anything: with
\* NotFound when B is unknown; otherwise the ids are validated in input
\* order and the call fails with NotFound at the first id the Author Store
\* does not know, or with ServiceUnavailable when the Author Store cannot be
\* reached; in each failing case the join table is as it was.
C13_FailsClean == []C13_Failed /\ [][C13_Step]_vars

\* C13 witness: a client's replace on a book that has an author passed its
\* first id and failed with 404 at the second; the book's author is still
\* there and is not one the call would have written alone.
C13_Witness ==
    \E s \in Slots :
        /\ areq[s].kind = "none"
        /\ breq[s].pc = "done" /\ breq[s].status = 404 /\ breq[s].k = 2
        /\ breq[s].author_ids[2] \notin authors
        /\ AuthorsOf(book_authors, breq[s].book_id) # {}

\* An element of a decoded list that is an author record: an object with an id.
IsRecord(a) == a.type = "object" /\ "id" \in DOMAIN a

\* C14 as stated: in AssignBooksToAuthor, whenever the answer to the read of
\* a book's current authors is not a sequence of author records (not JSON,
\* not a list, or a list with an element that is not an object carrying an
\* id), the request has failed with 502 and has issued no replace write for
\* that book.
C14_BadGateway ==
    \A s \in Slots :
        LET r == areq[s]
        IN /\ r.kind = "assign"
           /\ \/ r.raw \in {"invalid", "object"}
              \/ r.raw = "list" /\ \E j \in 1..Len(r.current_authors) : ~IsRecord(r.current_authors[j])
           => /\ r.pc = "done" /\ r.status = 502
              /\ Last(r.calls)[1] = "GET"

\* C15: referential integrity of the join table: in every state reached by
\* any interleaving of CreateAuthor, CreateBook, ReplaceBookAuthors and
\* AssignBooksToAuthor requests, every (book_id, author_id) row of
\* book_authors refers to a row of books and a row of authors.
C15_ReferentialIntegrity ==
    \A p \in book_authors : p[1] \in books /\ p[2] \in authors

\* C15 witness: the book has two authors, the write of an assign has just
\* committed and a client's replace on the same book is about to commit.
C15_Witness ==
    \E s, t \in Slots :
        /\ s # t
        /\ areq[s].kind = "assign" /\ breq[s].pc = "done" /\ breq[s].status = 200
        /\ areq[t].kind = "none" /\ breq[t].pc = "commit" /\ breq[t].book_id = breq[s].book_id
        /\ Cardinality(AuthorsOf(book_authors, breq[s].book_id)) = 2

\* C16 (state part): the list an AssignBooksToAuthor request sends in a
\* replace names A exactly once, also when book_ids names the book twice.
C16_SentOnce ==
    \A s \in Slots :
        LET r == areq[s]
        IN r.kind = "assign" /\ r.current_ids # <<>> =>
             Cardinality({j \in 1..Len(r.current_ids) : r.current_ids[j] = r.author_id}) = 1

\* C16 (step part): after a first call that succeeded, no step of the second
\* call with the same arguments, nor of the PUT handlers it starts, changes
\* a table.
C16_Step ==
    \A s \in Serial, t \in Slots :
        /\ t = s + 1 /\ areq[s].pc = "done" /\ areq[s].status = 200
        /\ areq'[t] # areq[t] \/ breq'[t] # breq[t]
        => db' = db

\* C16: AssignBooksToAuthor is idempotent when run sequentially: with no
\* other request in between, a second AssignBooksToAuthor(A, book_ids) with
\* the same arguments leaves every book's author set as the first call left
\* it, and A is never sent twice in one replace list.
C16_AssignIdempotent == []C16_SentOnce /\ [][C16_Step]_vars

\* C16 witness: both calls succeeded; the first read the book without A and
\* added it beside the author the book had, the second read it with A.
C16_Witness ==
    \E s \in Serial, t \in Slots :
        /\ t = s + 1
        /\ areq[s].pc = "done" /\ areq[s].status = 200
        /\ areq[t].pc = "done" /\ areq[t].status = 200
        /\ Len(areq[s].current_authors) = 1
        /\ areq[s].author_id \notin Range(IdsOf(areq[s].current_authors))
        /\ areq[t].author_id \in Range(IdsOf(areq[t].current_authors))
        /\ Range(areq[t].current_ids) = AuthorsOf(book_authors, Last(areq[t].book_ids))

====
